---- MODULE Spec2Model ----
(***************************************************************************)
(* The epoch batching and iteration engine of fairseq as used by           *)
(* StackingBERT: batch_by_size (fairseq/data/data_utils.py) and the        *)
(* iterators of fairseq/data/iterators.py.                                 *)
(*                                                                         *)
(* SpecBatch   runs the generator batch_by_size over bounded inputs.       *)
(* SpecShard   runs the ShardedIterators of all shards of one sequence.    *)
(* Spec        is one EpochBatchIterator under every call sequence.        *)
(* SpecPair    is two EpochBatchIterators over one plan: two workers, or   *)
(*             a run and the run that resumes from its state_dict().       *)
(***************************************************************************)
EXTENDS Integers, Sequences, FiniteSets, TLC

(* ------------------------------ bounds -------------------------------- *)
MaxLen == 4        \* longest input index sequence of batch_by_size
NumIdx == 2        \* number of distinct dataset indices
MaxSize == 2       \* largest value of num_tokens_fn
MaxTok == 3        \* largest finite max_tokens
MaxSent == 3       \* largest finite max_sentences
MaxMult == 2       \* largest required_batch_size_multiple
MaxItems == 7      \* longest sequence given to ShardedIterator
MaxShards == 3     \* largest num_shards
MaxPlan == 3       \* longest frozen batch plan of an EpochBatchIterator
MaxWorkers == 2    \* largest num_shards of an EpochBatchIterator
MaxEpoch == 2      \* largest epoch number an iterator reaches
MaxSeed == 1       \* largest seed of an EpochBatchIterator
MaxElems == 4      \* longest iterable a CountingIterator wraps
MaxCount == 6      \* largest count at which a caller's loop still draws
MaxSkip == 4       \* largest num_to_skip
MaxChunk == 3      \* largest chunk_size of a GroupedIterator
MaxFilter == 3     \* longest index sequence given to filter_by_size
MaxFSize == 2      \* largest size and largest limit of filter_by_size
MaxProcs == 2      \* largest num_gpu of the launcher
MaxSentLen == 4    \* longest sentence given to a truncate function
MaxPositions == 4  \* largest max_positions of a truncate function

(* float('Inf'): larger than every length and token count of the model *)
Inf == 1000000

(* ------------------------------ helpers ------------------------------- *)
Max(a, b) == IF a >= b THEN a ELSE b

\* Python's max() over a non-empty list
RECURSIVE MaxOf(_)
MaxOf(s) == IF Len(s) = 1 THEN s[1] ELSE Max(s[1], MaxOf(Tail(s)))

\* Python's s[:n] and s[n:] for 0 <= n
Take(s, n) == SubSeq(s, 1, IF n < Len(s) THEN n ELSE Len(s))
Drop(s, n) == SubSeq(s, n + 1, Len(s))

RECURSIVE Flatten(_)
Flatten(ss) == IF ss = <<>> THEN <<>> ELSE ss[1] \o Flatten(Tail(ss))

RECURSIVE Count(_, _)
Count(s, x) ==
    IF s = <<>> THEN 0 ELSE (IF s[1] = x THEN 1 ELSE 0) + Count(Tail(s), x)

SeqsUpTo(S, n) == UNION {[1..k -> S] : k \in 0..n}

(* ============================ batch_by_size =========================== *)
VARIABLES
    indices,        \* the input index sequence
    num_tokens_fn,  \* the size function, index -> number of tokens
    max_tokens,     \* after the None -> Inf defaulting
    max_sentences,  \* after the None -> Inf defaulting
    bsz_mult,       \* required_batch_size_multiple
    pos,            \* how many indices the for loop has taken
    batch,          \* the candidate batch
    sample_lens,    \* sizes of the candidate's examples and the pending one
    sample_len,     \* running maximum size
    emitted,        \* the batches yielded so far, in order
    pc_b            \* "idle" | "loop" | "done"

batchVars == <<indices, num_tokens_fn, max_tokens, max_sentences, bsz_mult,
               pos, batch, sample_lens, sample_len, emitted, pc_b>>

(* ============================ ShardedIterator ========================= *)
VARIABLES
    sh_iterable,    \* the sequence that is sharded
    sh_num_shards,  \* num_shards
    shards,         \* shard_id -> the ShardedIterator built for that shard
    yielded,        \* shard_id -> the items __next__ has returned, in order
    stopped,        \* shard_id -> __next__ has raised StopIteration
    sh_failed       \* the shard_ids for which __init__ raised ValueError

shardVars == <<sh_iterable, sh_num_shards, shards, yielded, stopped, sh_failed>>

(* =========================== EpochBatchIterator ======================= *)
VARIABLES
    its,            \* instance -> EpochBatchIterator object
    hist,           \* instance -> what the caller last did with it
    ret             \* the dict the last call returned, if it was state_dict()

epochVars == <<its, hist, ret>>

(* ================== CountingIterator and GroupedIterator ============== *)
VARIABLES
    c_iterable,     \* self.iterable: its items, whether it is single-pass,
                    \* and the position of its cursor when it is
    c_count,        \* self.count
    c_itr,          \* self.itr, the generator __init__ made with iter(self)
    c_loop,         \* the generator the last iter(self) of a caller made
    c_out,          \* the elements the caller was given, in order
    c_op            \* the caller's last operation

countVars == <<c_iterable, c_count, c_itr, c_loop, c_out, c_op>>

VARIABLES
    g_chunk_size,   \* GroupedIterator.chunk_size
    g_len,          \* GroupedIterator._len
    g_out,          \* the groups __next__ has returned, in order
    g_stopped       \* __next__ has raised StopIteration

groupVars == <<g_chunk_size, g_len, g_out, g_stopped>>

(* ============================ filter_by_size ========================== *)
VARIABLES
    f_indices,          \* indices
    f_size_fn,          \* size_fn, index -> size
    f_max_positions,    \* max_positions: a number, or a tuple
    f_raise_exception,  \* raise_exception
    f_pos,              \* how many indices collect_filtered has taken
    f_ignored,          \* ignored
    f_out,              \* the indices yielded, in order
    f_pc                \* "loop", "raised" (the Exception) or "done"

filterVars == <<f_indices, f_size_fn, f_max_positions, f_raise_exception,
                f_pos, f_ignored, f_out, f_pc>>

(* ===================== truncate_single, truncate_pair ================= *)
VARIABLES
    t_sent1,            \* sent (truncate_single), sent1 (truncate_pair)
    t_sent2,            \* sent2
    t_max_positions,    \* max_positions
    t_out,              \* what the call returned
    t_pc                \* "call", or the function that has returned

truncVars == <<t_sent1, t_sent2, t_max_positions, t_out, t_pc>>

(* ========================= distributed_train.py ======================= *)
VARIABLES
    l_num_gpu,          \* num_gpu
    l_pc,               \* main: "spawn", "add", "join", "returned", "raised"
    l_i,                \* the loop variable of main, from 1
    l_procs,            \* child -> "none", "running", "put", "exited"
    l_failed,           \* the children that met an exception
    l_reaped,           \* the children main has joined
    l_children_pids,    \* ErrorHandler.children_pids
    l_error_queue,      \* error_queue: the ranks whose tracebacks it holds
    l_listener,         \* error_listener: "get", "put", "kill", "end"
    l_got,              \* what error_listener took from the queue
    l_sigusr1,          \* SIGUSR1 is pending for the parent
    l_sigint,           \* the children the parent sent SIGINT to
    l_raised            \* what was raised in main

launchVars == <<l_num_gpu, l_pc, l_i, l_procs, l_failed, l_reaped,
                l_children_pids, l_error_queue, l_listener, l_got,
                l_sigusr1, l_sigint, l_raised>>

vars == <<batchVars, shardVars, epochVars, countVars, groupVars, filterVars,
          truncVars, launchVars>>

otherVars == <<filterVars, truncVars, launchVars>>
notBatchVars == <<shardVars, epochVars, countVars, groupVars, otherVars>>
notShardVars == <<batchVars, epochVars, countVars, groupVars, otherVars>>
notEpochVars == <<batchVars, shardVars, countVars, groupVars, otherVars>>
notCountVars == <<batchVars, shardVars, epochVars, groupVars, otherVars>>
notGroupVars == <<batchVars, shardVars, epochVars, otherVars>>
iteratorVars == <<batchVars, shardVars, epochVars, countVars, groupVars>>
notFilterVars == <<iteratorVars, truncVars, launchVars>>
notTruncVars == <<iteratorVars, filterVars, launchVars>>
notLaunchVars == <<iteratorVars, filterVars, truncVars>>

Idx == 1..NumIdx

\* max_tokens if max_tokens is not None else float('Inf')
OrInf(limit) == IF limit = 0 THEN Inf ELSE limit

is_batch_full_any_len(b, num_tokens) ==
    IF Len(b) = 0 THEN FALSE
    ELSE IF num_tokens > max_tokens THEN TRUE
    ELSE FALSE

is_batch_full(b, num_tokens) ==
    IF Len(b) = 0 THEN FALSE
    ELSE IF Len(b) = max_sentences THEN TRUE
    ELSE IF num_tokens > max_tokens THEN TRUE
    ELSE FALSE

mod_len_unrounded(b) == Len(b)

mod_len_floor_only(b) == bsz_mult * (Len(b) \div bsz_mult)

mod_len(b) ==
    Max(bsz_mult * (Len(b) \div bsz_mult), Len(b) % bsz_mult)

Remainder_dropping(b, n) == Drop(b, n + 1)

\* batch = batch[mod_len:]
Remainder(b, n) == Drop(b, n)

\* the size functions: the code never looks at an index but through
\* num_tokens_fn, so the indices are named in order of size
SizeFns ==
    {f \in [Idx -> 1..MaxSize] : \A i, j \in Idx : i <= j => f[i] <= f[j]}

InitBatchVars ==
    /\ indices \in SeqsUpTo(Idx, MaxLen)
    /\ num_tokens_fn \in SizeFns
    /\ max_tokens \in {OrInf(t) : t \in 0..MaxTok}
    /\ max_sentences \in {OrInf(s) : s \in 0..MaxSent}
    /\ bsz_mult \in 1..MaxMult
    /\ pos = 0
    /\ batch = <<>>
    /\ sample_lens = <<>>
    /\ sample_len = 0
    /\ emitted = <<>>
    /\ pc_b = "loop"

IdleBatchVars ==
    /\ indices = <<>>
    /\ num_tokens_fn = [i \in Idx |-> 1]
    /\ max_tokens = Inf
    /\ max_sentences = Inf
    /\ bsz_mult = 1
    /\ pos = 0
    /\ batch = <<>>
    /\ sample_lens = <<>>
    /\ sample_len = 0
    /\ emitted = <<>>
    /\ pc_b = "idle"

\* the values the loop body computes before the is_batch_full test
PendingLens == Append(sample_lens, num_tokens_fn[indices[pos + 1]])
PendingLen == Max(sample_len, PendingLens[Len(PendingLens)])
PendingTokens == (Len(batch) + 1) * PendingLen

BatchAppend_prepending ==
    /\ pc_b = "loop"
    /\ pos < Len(indices)
    /\ ~is_batch_full(batch, PendingTokens)
    /\ sample_lens' = PendingLens
    /\ sample_len' = PendingLen
    /\ batch' = <<indices[pos + 1]>> \o batch
    /\ pos' = pos + 1
    /\ UNCHANGED <<indices, num_tokens_fn, max_tokens, max_sentences,
                   bsz_mult, emitted, pc_b>>

\* one pass of the for loop in which the candidate is not full
BatchAppend ==
    /\ pc_b = "loop"
    /\ pos < Len(indices)
    /\ ~is_batch_full(batch, PendingTokens)
    /\ sample_lens' = PendingLens
    /\ sample_len' = PendingLen
    /\ batch' = Append(batch, indices[pos + 1])
    /\ pos' = pos + 1
    /\ UNCHANGED <<indices, num_tokens_fn, max_tokens, max_sentences,
                   bsz_mult, emitted, pc_b>>

\* one pass of the for loop in which the candidate is closed and yielded
BatchClose ==
    /\ pc_b = "loop"
    /\ pos < Len(indices)
    /\ is_batch_full(batch, PendingTokens)
    /\ LET n == mod_len(batch)
           lens == Drop(PendingLens, n)
       IN /\ emitted' = Append(emitted, Take(batch, n))
          /\ batch' = Append(Remainder(batch, n), indices[pos + 1])
          /\ sample_lens' = lens
          /\ sample_len' = IF Len(lens) > 0 THEN MaxOf(lens) ELSE 0
    /\ pos' = pos + 1
    /\ UNCHANGED <<indices, num_tokens_fn, max_tokens, max_sentences,
                   bsz_mult, pc_b>>

\* after the loop: if len(batch) > 0: yield batch
BatchFinish ==
    /\ pc_b = "loop"
    /\ pos = Len(indices)
    /\ emitted' = IF Len(batch) > 0 THEN Append(emitted, batch) ELSE emitted
    /\ pc_b' = "done"
    /\ UNCHANGED <<indices, num_tokens_fn, max_tokens, max_sentences,
                   bsz_mult, pos, batch, sample_lens, sample_len>>

(* ============================ ShardedIterator ========================= *)
\* the padding value EpochBatchIterator passes: fill_value=[]
FillValue == <<>>

ShardedLen_floor(n_items, n_shards) == n_items \div n_shards

\* self._sharded_len
ShardedLen(n_items, n_shards) ==
    (n_items \div n_shards) + (IF n_items % n_shards > 0 THEN 1 ELSE 0)

Islice_from_zero(iterable, start, stop, step) ==
    [seq |-> iterable, next |-> 0, stop |-> stop, step |-> step]

\* itertools.islice(iterable, start, stop, step): next is the 0-based
\* position of the element it returns next
Islice(iterable, start, stop, step) ==
    [seq |-> iterable, next |-> start, stop |-> stop, step |-> step]

IsliceHasNext(sl) == sl.next < sl.stop /\ sl.next < Len(sl.seq)

\* ShardedIterator.__init__ past the shard_id check: the state of
\* zip_longest(range(sharded_len), islice(...), fillvalue=fill_value)
ShardedIterator(iterable, n_shards, shard_id, fill_value) ==
    [sharded_len |-> ShardedLen(Len(iterable), n_shards),
     range_next |-> 0,
     islice |-> Islice(iterable, shard_id, Len(iterable), n_shards),
     fill_value |-> fill_value]

ShardedHasNext_islice_only(it) == IsliceHasNext(it.islice)

\* zip_longest goes on while either of its iterators has an element
ShardedHasNext(it) ==
    it.range_next < it.sharded_len \/ IsliceHasNext(it.islice)

\* next(self.itr)[1]
ShardedItem(it) ==
    IF IsliceHasNext(it.islice)
    THEN it.islice.seq[it.islice.next + 1]
    ELSE it.fill_value

ShardedAdvance(it) ==
    [it EXCEPT
       !.range_next = IF @ < it.sharded_len THEN @ + 1 ELSE @,
       !.islice.next = IF IsliceHasNext(it.islice) THEN @ + it.islice.step
                       ELSE @]

\* list(sharded_iterator): every item it returns until StopIteration
RECURSIVE ShardedItems(_)
ShardedItems(it) ==
    IF ShardedHasNext(it)
    THEN <<ShardedItem(it)>> \o ShardedItems(ShardedAdvance(it))
    ELSE <<>>

\* the ValueError of ShardedIterator.__init__
ValueError == [raised |-> "ValueError"]

ShardIdInvalid_inclusive(shard_id, n_shards) ==
    shard_id < 0 \/ shard_id > n_shards

\* the test of ShardedIterator.__init__ on shard_id
ShardIdInvalid(shard_id, n_shards) == shard_id < 0 \/ shard_id >= n_shards

\* ShardedIterator.__init__ as a whole
ShardedIteratorInit(iterable, n_shards, shard_id, fill_value) ==
    IF ShardIdInvalid(shard_id, n_shards) THEN ValueError
    ELSE ShardedIterator(iterable, n_shards, shard_id, fill_value)

ShardIds == 0..(sh_num_shards - 1)

\* the shard_ids a ShardedIterator is built with: the valid ones and those
\* next to them
TriedShardIds == (0 - 2)..(sh_num_shards + 1)

InitShardVars ==
    /\ \E n \in 0..MaxItems : sh_iterable = [i \in 1..n |-> <<i>>]
    /\ sh_num_shards \in 1..MaxShards
    /\ sh_failed = {s \in TriedShardIds :
                       ShardedIteratorInit(sh_iterable, sh_num_shards, s,
                                           FillValue) = ValueError}
    /\ shards = [s \in TriedShardIds \ sh_failed |->
                   ShardedIteratorInit(sh_iterable, sh_num_shards, s,
                                       FillValue)]
    /\ yielded = [s \in DOMAIN shards |-> <<>>]
    /\ stopped = [s \in DOMAIN shards |-> FALSE]

IdleShardVars ==
    /\ sh_iterable = <<>>
    /\ sh_num_shards = 1
    /\ shards = <<>>
    /\ yielded = <<>>
    /\ stopped = <<>>
    /\ sh_failed = {}

\* ShardedIterator.__next__ returning an item
ShardNext(s) ==
    /\ ShardedHasNext(shards[s])
    /\ yielded' = [yielded EXCEPT ![s] = Append(@, ShardedItem(shards[s]))]
    /\ shards' = [shards EXCEPT ![s] = ShardedAdvance(@)]
    /\ UNCHANGED <<sh_iterable, sh_num_shards, stopped, sh_failed>>

\* ShardedIterator.__next__ raising StopIteration
ShardStop(s) ==
    /\ ~ShardedHasNext(shards[s])
    /\ ~stopped[s]
    /\ stopped' = [stopped EXCEPT ![s] = TRUE]
    /\ UNCHANGED <<sh_iterable, sh_num_shards, shards, yielded, sh_failed>>


(* ============================ CountingIterator ======================== *)
None == <<>>
Some(x) == <<x>>
Val(o) == o[1]

\* CountingIterator.__init__; iterable is the DataLoader over a
\* ShardedIterator batch sampler, which yields one item per sampled batch.
\* seen, epoch and shuffle record what was consumed and how it was derived.
CountingIterator(iterable, epoch, shuffle) ==
    [iterable |-> iterable, count |-> 0,
     seen |-> <<>>, epoch |-> epoch, shuffle |-> shuffle]

\* CountingIterator.__len__: len(DataLoader) is len(batch_sampler)
CountingLen(c) == c.iterable.sharded_len

has_next_inclusive(c) == c.count <= CountingLen(c)

\* CountingIterator.has_next
has_next(c) == c.count < CountingLen(c)

\* whether the generator of __iter__ has another element
CountingCanStep(c) == ShardedHasNext(c.iterable)

\* one element drawn from the generator of __iter__: self.count += 1
CountingStep(c) ==
    [c EXCEPT !.count = @ + 1,
              !.seen = Append(@, ShardedItem(c.iterable)),
              !.iterable = ShardedAdvance(@)]

skip_one_short(c, num_to_skip) ==
    IF num_to_skip <= 1 \/ ~CountingCanStep(c) THEN c
    ELSE [c EXCEPT !.count = @ + (num_to_skip - 1)]

\* CountingIterator.skip: islice(self.itr, n, n) draws n elements from the
\* generator, or as many as it has
RECURSIVE skip(_, _)
skip(c, num_to_skip) ==
    IF num_to_skip = 0 \/ ~CountingCanStep(c) THEN c
    ELSE skip(CountingStep(c), num_to_skip - 1)

\* the items the iterator has still to yield
Remaining(c) == ShardedItems(c.iterable)

\* every item of the derived epoch: those drawn so far and those to come
AllItems(c) == c.seen \o Remaining(c)

(* =========================== EpochBatchIterator ======================= *)
\* seed=1, the default of EpochBatchIterator.__init__
DefaultSeed == 1

\* the batch plans: batches of distinct example indices, as batch_by_size
\* produces them
PlanOf(n) == [p \in 1..n |-> <<2 * p - 1, 2 * p>>]

\* NumpyShuffles[s + 1][n + 1] is the order in which
\*     with numpy_seed(s): np.random.shuffle(x)
\* leaves a list x of n items: its k-th entry is the position before the
\* shuffle of the item that is k-th after it (MT19937 seeded with s, one
\* bounded draw per swap, from the last position down)
NumpyShuffles ==
   <<
      <<<<>>, <<1>>, <<2, 1>>, <<3, 2, 1>>, <<3, 4, 2, 1>>, <<3, 1, 2, 4, 5>>>>,
      <<<<>>, <<1>>, <<1, 2>>, <<1, 3, 2>>, <<4, 3, 1, 2>>, <<3, 2, 5, 1, 4>>>>,
      <<<<>>, <<1>>, <<2, 1>>, <<3, 2, 1>>, <<3, 4, 2, 1>>, <<3, 5, 2, 4, 1>>>>,
      <<<<>>, <<1>>, <<2, 1>>, <<2, 1, 3>>, <<4, 2, 1, 3>>, <<4, 5, 2, 1, 3>>>>,
      <<<<>>, <<1>>, <<2, 1>>, <<2, 1, 3>>, <<1, 2, 4, 3>>, <<1, 4, 2, 5, 3>>>>,
      <<<<>>, <<1>>, <<1, 2>>, <<1, 2, 3>>, <<1, 2, 3, 4>>, <<5, 1, 2, 3, 4>>>>,
      <<<<>>, <<1>>, <<2, 1>>, <<1, 2, 3>>, <<1, 4, 2, 3>>, <<4, 5, 1, 2, 3>>>>,
      <<<<>>, <<1>>, <<1, 2>>, <<3, 2, 1>>, <<3, 2, 1, 4>>, <<1, 4, 3, 2, 5>>>>
   >>

Shuffled_drop_last(batches, s) ==
    [k \in 1..(Len(batches) - 1) |->
        batches[NumpyShuffles[s + 1][Len(batches)][k]]]

\* batches = list(self.frozen_batches); np.random.shuffle(batches) under
\* numpy_seed(s)
Shuffled(batches, s) ==
    [k \in 1..Len(batches) |->
        batches[NumpyShuffles[s + 1][Len(batches) + 1][k]]]

FrozenAfterShuffle_in_place(frozen, batches) == batches

\* the plan after an epoch's order was derived from it: the shuffle works
\* on a copy
FrozenAfterShuffle(frozen, batches) == frozen

\* EpochBatchIterator.__init__
EpochBatchIterator(batch_sampler, seed, n_shards, shard_id) ==
    [frozen_batches |-> batch_sampler, seed |-> seed,
     num_shards |-> n_shards, shard_id |-> shard_id,
     epoch |-> 0, cur_epoch_itr |-> None, next_epoch_itr |-> None]

BatchesForEpoch_rank_seeded(obj, epoch, shuffle) ==
    IF shuffle
    THEN Shuffled(obj.frozen_batches, obj.seed + epoch + obj.shard_id)
    ELSE obj.frozen_batches

\* the batch order _get_iterator_for_epoch derives
BatchesForEpoch(obj, epoch, shuffle) ==
    IF shuffle THEN Shuffled(obj.frozen_batches, obj.seed + epoch)
    ELSE obj.frozen_batches

\* EpochBatchIterator._get_iterator_for_epoch
GetIteratorForEpoch(obj, epoch, shuffle) ==
    CountingIterator(
       ShardedIterator(BatchesForEpoch(obj, epoch, shuffle),
                       obj.num_shards, obj.shard_id, FillValue),
       epoch, shuffle)

iterations_in_epoch_lookahead_first(obj) ==
    IF obj.next_epoch_itr # None THEN Val(obj.next_epoch_itr).count
    ELSE IF obj.cur_epoch_itr # None THEN Val(obj.cur_epoch_itr).count
    ELSE 0

\* EpochBatchIterator.iterations_in_epoch
iterations_in_epoch(obj) ==
    IF obj.cur_epoch_itr # None THEN Val(obj.cur_epoch_itr).count
    ELSE IF obj.next_epoch_itr # None THEN Val(obj.next_epoch_itr).count
    ELSE 0

\* EpochBatchIterator.end_of_epoch, called once an epoch has begun
end_of_epoch(obj) == ~has_next(Val(obj.cur_epoch_itr))

\* a call of end_of_epoch() in any state: _cur_epoch_itr is None until
\* next_epoch_itr was called, and None has no attribute has_next
end_of_epoch_call(obj) ==
    IF obj.cur_epoch_itr = None
    THEN [raised |-> "AttributeError", value |-> FALSE]
    ELSE [raised |-> "none", value |-> end_of_epoch(obj)]

\* EpochBatchIterator.state_dict
state_dict(obj) ==
    [epoch |-> obj.epoch, iterations_in_epoch |-> iterations_in_epoch(obj)]

\* the number of batches in this worker's epoch
EpochLen(obj) == ShardedLen(Len(obj.frozen_batches), obj.num_shards)

\* hist[i] records the last call on instance i:
\*   op      "init" (built), "load" (load_state_dict), "next"
\*           (next_epoch_itr) or "iter" (an item was taken)
\*   loaded  the call was a load_state_dict, or the next_epoch_itr that
\*           followed one directly
\*   pos     the iterations_in_epoch of that load_state_dict
\*   clean   that load_state_dict was the first call on the instance
\*   src     the instances whose state_dict() was loaded and which have not
\*           been used since
\*   arg     the shuffle argument of next_epoch_itr
NoHist ==
    [op |-> "init", loaded |-> FALSE, pos |-> 0, clean |-> TRUE, src |-> {},
     arg |-> TRUE]

AfterNext(h, shuffle) ==
    [op |-> "next",
     loaded |-> h.op = "load",
     pos |-> IF h.op = "load" THEN h.pos ELSE 0,
     clean |-> h.op = "load" /\ h.clean,
     src |-> IF h.op = "load" THEN h.src ELSE {},
     arg |-> shuffle]

AfterIter ==
    [op |-> "iter", loaded |-> FALSE, pos |-> 0, clean |-> FALSE, src |-> {},
     arg |-> TRUE]

\* an operation on instance self ends what was recorded about the others'
\* loading of its state
Touch(h, self) ==
    [j \in DOMAIN h |-> IF j = self THEN h[j]
                        ELSE [h[j] EXCEPT !.src = @ \ {self}]]

InitEpochVars(instances, seeds) ==
    /\ \E n \in 0..MaxPlan, sd \in seeds, ns \in 1..MaxWorkers :
         \E sid \in [instances -> 0..(ns - 1)] :
            its = [i \in instances |->
                     EpochBatchIterator(PlanOf(n), sd, ns, sid[i])]
    /\ hist = [i \in instances |-> NoHist]
    /\ ret = None

IdleEpochVars ==
    /\ its = <<>>
    /\ hist = <<>>
    /\ ret = None

NextEpochItrLookahead_kept(self, shuffle) ==
    /\ its[self].next_epoch_itr # None
    /\ its' = [its EXCEPT ![self].cur_epoch_itr = its[self].next_epoch_itr]
    /\ hist' = Touch([hist EXCEPT ![self] = AfterNext(@, shuffle)], self)
    /\ ret' = None

\* next_epoch_itr with a lookahead pending
NextEpochItrLookahead(self, shuffle) ==
    /\ its[self].next_epoch_itr # None
    /\ its' = [its EXCEPT ![self].cur_epoch_itr = its[self].next_epoch_itr,
                          ![self].next_epoch_itr = None]
    /\ hist' = Touch([hist EXCEPT ![self] = AfterNext(@, shuffle)], self)
    /\ ret' = None

\* next_epoch_itr with no lookahead pending
NextEpochItrDerive(self, shuffle) ==
    /\ its[self].next_epoch_itr = None
    /\ its[self].epoch < MaxEpoch
    /\ LET epoch == its[self].epoch + 1
       IN its' = [its EXCEPT
             ![self].epoch = epoch,
             ![self].cur_epoch_itr =
                 Some(GetIteratorForEpoch(its[self], epoch, shuffle)),
             ![self].frozen_batches =
                 FrozenAfterShuffle(@, BatchesForEpoch(its[self], epoch,
                                                       shuffle))]
    /\ hist' = Touch([hist EXCEPT ![self] = AfterNext(@, shuffle)], self)
    /\ ret' = None

\* next(itr) on the active cursor yielding an item
Consume(self) ==
    /\ its[self].cur_epoch_itr # None
    /\ CountingCanStep(Val(its[self].cur_epoch_itr))
    /\ its' = [its EXCEPT ![self].cur_epoch_itr =
                              Some(CountingStep(Val(@)))]
    /\ hist' = Touch([hist EXCEPT ![self] = AfterIter], self)
    /\ ret' = None

\* the dicts given to load_state_dict; shuffle is None when the dict has no
\* 'shuffle' key, as the dicts of state_dict(), which is read as True
StateDicts(obj) ==
    [epoch : 0..MaxEpoch,
     iterations_in_epoch : 0..(EpochLen(obj) + 1),
     shuffle : {None, Some(FALSE)}]

\* the dict state_dict() of obj returns, as load_state_dict reads it
SavedBy(obj) ==
    [epoch |-> state_dict(obj).epoch,
     iterations_in_epoch |-> state_dict(obj).iterations_in_epoch,
     shuffle |-> None]

\* load_state_dict
LoadStateDict(self, sd) ==
    LET epoch == sd.epoch
        itr_pos == sd.iterations_in_epoch
        shuffle == IF sd.shuffle = None THEN TRUE ELSE Val(sd.shuffle)
        itr == GetIteratorForEpoch(its[self], epoch, shuffle)
    IN /\ its' = [its EXCEPT
             ![self].epoch = epoch,
             ![self].next_epoch_itr =
                 IF itr_pos > 0 /\ itr_pos < CountingLen(itr)
                 THEN Some(skip(itr, itr_pos))
                 ELSE @,
             ![self].frozen_batches =
                 IF itr_pos > 0
                 THEN FrozenAfterShuffle(@, BatchesForEpoch(its[self], epoch,
                                                            shuffle))
                 ELSE @]
       /\ hist' = Touch([hist EXCEPT ![self] =
                    [op |-> "load", loaded |-> TRUE, pos |-> itr_pos,
                     clean |-> hist[self].op = "init", arg |-> TRUE,
                     src |-> {i \in DOMAIN its \ {self} :
                                /\ its[i].cur_epoch_itr # None
                                /\ sd = SavedBy(its[i])}]],
                   self)
       /\ ret' = None

\* a call of state_dict(): it reads the object and returns the dict
StateDictCall(self) ==
    /\ ret = None
    /\ ret' = Some([of |-> self, dict |-> state_dict(its[self])])
    /\ UNCHANGED <<its, hist>>

\* the caller has the dict
DictTaken ==
    /\ ret # None
    /\ ret' = None
    /\ UNCHANGED <<its, hist>>

\* the process is restarted: a new EpochBatchIterator is built with the
\* same batch sampler, seed and shard descriptor
Restart(self) ==
    /\ hist[self].op # "init"
    /\ \E n \in 0..MaxPlan :
         /\ Len(its[self].frozen_batches) = n
         /\ its' = [its EXCEPT ![self] =
                      EpochBatchIterator(PlanOf(n), its[self].seed,
                                         its[self].num_shards,
                                         its[self].shard_id)]
    /\ hist' = Touch([hist EXCEPT ![self] = NoHist], self)
    /\ ret' = None

(* ============ CountingIterator over any iterable with a length ========= *)
\* The cursors of an EpochBatchIterator wrap a DataLoader over a
\* ShardedIterator, whose iter() hands out the one underlying cursor again.
\* Here the class is taken with both kinds of iterable it can wrap: a
\* sequence, of which every iter() starts a new pass, and a single-pass
\* iterable.

\* a generator made by __iter__: its body has not run ("new"), is suspended
\* at the yield ("run") or has returned ("done"); pos is the position of the
\* iterator that `for x in self.iterable` holds on a sequence
NewGen == [state |-> "new", pos |-> 0]

\* the iterable to wrap: items 1..n
Iterable(n, single_pass) ==
    [items |-> [i \in 1..n |-> i], single_pass |-> single_pass, pos |-> 0]

\* the position from which generator g takes its next element
GenPos(it, g) == IF it.single_pass THEN it.pos ELSE g.pos

\* whether next(g) yields an element
GenCanYield(it, g) == g.state # "done" /\ GenPos(it, g) < Len(it.items)

\* next(g) for a generator g of __iter__, on the state
\* st = [iterable, count, gen, got]: the element is appended to got and
\* self.count += 1, or the generator returns
GenNext(st) ==
    IF GenCanYield(st.iterable, st.gen)
    THEN [iterable |-> IF st.iterable.single_pass
                       THEN [st.iterable EXCEPT !.pos = @ + 1]
                       ELSE st.iterable,
          count |-> st.count + 1,
          gen |-> [state |-> "run",
                   pos |-> IF st.iterable.single_pass THEN st.gen.pos
                           ELSE st.gen.pos + 1],
          got |-> Append(st.got,
                         st.iterable.items[GenPos(st.iterable, st.gen) + 1])]
    ELSE [st EXCEPT !.gen.state = "done"]

\* next(itertools.islice(g, n, n), None): n elements are drawn from g, or
\* as many as it has
RECURSIVE GenSkip(_, _)
GenSkip(st, n) ==
    IF n = 0 THEN st
    ELSE LET t == GenNext(st)
         IN IF t.gen.state = "done" THEN t ELSE GenSkip(t, n - 1)

\* CountingIterator.has_next on the variables
CountHasNext == c_count < Len(c_iterable.items)

\* CountingIterator.__init__
InitCountVars ==
    /\ \E n \in 0..MaxElems, single_pass \in BOOLEAN :
          c_iterable = Iterable(n, single_pass)
    /\ c_count = 0
    /\ c_itr = NewGen
    /\ c_loop = None
    /\ c_out = <<>>
    /\ c_op = [op |-> "init", n |-> 0]

\* the state GenNext works on, for self.itr
ItrState == [iterable |-> c_iterable, count |-> c_count, gen |-> c_itr,
             got |-> c_out]

\* the same for the generator of the caller's last iter(self)
LoopState == [iterable |-> c_iterable, count |-> c_count, gen |-> Val(c_loop),
              got |-> c_out]

\* CountingIterator.__next__ returning an element
CountNext ==
    /\ GenCanYield(c_iterable, c_itr)
    /\ LET t == GenNext(ItrState)
       IN /\ c_iterable' = t.iterable
          /\ c_count' = t.count
          /\ c_itr' = t.gen
          /\ c_out' = t.got
    /\ c_op' = [op |-> "next", n |-> 0]
    /\ UNCHANGED c_loop

\* CountingIterator.__next__ raising StopIteration
CountStop ==
    /\ ~GenCanYield(c_iterable, c_itr)
    /\ c_itr' = GenNext(ItrState).gen
    /\ c_op' = [op |-> "stop", n |-> 0]
    /\ UNCHANGED <<c_iterable, c_count, c_loop, c_out>>

\* CountingIterator.skip
CountSkip(num_to_skip) ==
    /\ LET t == GenSkip(ItrState, num_to_skip)
       IN /\ c_iterable' = t.iterable
          /\ c_count' = t.count
          /\ c_itr' = t.gen
          /\ c_out' = t.got
    /\ c_op' = [op |-> "skip", n |-> num_to_skip]
    /\ UNCHANGED c_loop

\* iter(self) by a caller (a for loop, list(), GroupedIterator): __iter__
\* makes a new generator
CountIter ==
    /\ c_loop' = Some(NewGen)
    /\ c_op' = [op |-> "iter", n |-> 0]
    /\ UNCHANGED <<c_iterable, c_count, c_itr, c_out>>

\* the caller's loop takes an element from its generator
CountLoopNext ==
    /\ c_loop # None
    /\ GenCanYield(c_iterable, Val(c_loop))
    /\ c_count < MaxCount
    /\ LET t == GenNext(LoopState)
       IN /\ c_iterable' = t.iterable
          /\ c_count' = t.count
          /\ c_loop' = Some(t.gen)
          /\ c_out' = t.got
    /\ c_op' = [op |-> "loop", n |-> 0]
    /\ UNCHANGED c_itr

\* the caller's loop ends: its generator returns
CountLoopStop ==
    /\ c_loop # None
    /\ ~GenCanYield(c_iterable, Val(c_loop))
    /\ c_loop' = Some(GenNext(LoopState).gen)
    /\ c_op' = [op |-> "loopstop", n |-> 0]
    /\ UNCHANGED <<c_iterable, c_count, c_itr, c_out>>

(* ============================ GroupedIterator ========================= *)
\* int(math.ceil(len(iterable) / float(chunk_size)))
GroupedLen(n, chunk_size) ==
    (n \div chunk_size) + (IF n % chunk_size > 0 THEN 1 ELSE 0)

\* GroupedIterator.__init__ on a CountingIterator, as the cursor that
\* next_epoch_itr returns: new, or a lookahead that load_state_dict has
\* moved forward with skip
InitGroupVars ==
    /\ \E n \in 0..MaxElems, single_pass \in BOOLEAN, k \in 0..MaxElems :
         LET t == GenSkip([iterable |-> Iterable(n, single_pass),
                           count |-> 0, gen |-> NewGen, got |-> <<>>], k)
         IN /\ c_iterable = t.iterable
            /\ c_count = t.count
            /\ c_itr = t.gen
            /\ c_out = t.got
            /\ c_op = [op |-> "skip", n |-> k]
    /\ c_loop = Some(NewGen)
    /\ g_chunk_size \in 1..MaxChunk
    /\ g_len = GroupedLen(Len(c_iterable.items), g_chunk_size)
    /\ g_out = <<>>
    /\ g_stopped = FALSE

\* the loop of GroupedIterator.__next__: up to chunk_size elements are
\* drawn from self.itr
ChunkState == GenSkip(LoopState, g_chunk_size)

\* the chunk that loop has built
Chunk == Drop(ChunkState.got, Len(c_out))

\* GroupedIterator.__next__ returning a chunk
GroupNext ==
    /\ Len(Chunk) > 0
    /\ g_out' = Append(g_out, Chunk)
    /\ c_iterable' = ChunkState.iterable
    /\ c_count' = ChunkState.count
    /\ c_loop' = Some(ChunkState.gen)
    /\ c_out' = ChunkState.got
    /\ c_op' = [op |-> "group", n |-> 0]
    /\ UNCHANGED <<c_itr, g_chunk_size, g_len, g_stopped>>

\* GroupedIterator.__next__ raising StopIteration
GroupStop ==
    /\ Len(Chunk) = 0
    /\ ~g_stopped
    /\ g_stopped' = TRUE
    /\ c_loop' = Some(ChunkState.gen)
    /\ c_op' = [op |-> "groupstop", n |-> 0]
    /\ UNCHANGED <<c_iterable, c_count, c_itr, c_out, g_chunk_size, g_len,
                   g_out>>

(* ============================ filter_by_size ========================== *)
\* max_positions is a number, or a tuple whose components may be None; the
\* sizes size_fn returns are numbers in the first case and tuples in the
\* second
Number(n) == [kind |-> "number", v |-> n]
Tuple(t) == [kind |-> "tuple", v |-> t]

Min(a, b) == IF a <= b THEN a ELSE b

\* check_size(idx) with the size and the limit as arguments: zip() pairs the
\* components up to the shorter tuple
check_size_of(size, max_positions) ==
    IF max_positions.kind = "number"
    THEN size.v <= max_positions.v
    ELSE \A k \in 1..Min(Len(size.v), Len(max_positions.v)) :
            \/ size.v[k] = None
            \/ max_positions.v[k] = None
            \/ Val(size.v[k]) <= Val(max_positions.v[k])

\* check_size of filter_by_size, on the variables
check_size(idx) == check_size_of(f_size_fn[idx], f_max_positions)

\* collect_filtered from position p of the indices: the position of the
\* first element that passes, Len + 1 when no element is left that does
RECURSIVE NextPassing(_)
NextPassing(p) ==
    IF p >= Len(f_indices) THEN Len(f_indices) + 1
    ELSE IF check_size(f_indices[p + 1]) THEN p + 1
    ELSE NextPassing(p + 1)

\* ignored after collect_filtered has gone from position f_pos to position
\* q: every element it passed over was appended to filtered
IgnoredUpTo(q) ==
    f_ignored \o SubSeq(f_indices, f_pos + 1, Min(q - 1, Len(f_indices)))

FilterSizes(kind) ==
    IF kind = "number" THEN {Number(n) : n \in 1..MaxFSize}
    ELSE {Tuple(<<Some(a), Some(b)>>) : a \in 1..MaxFSize, b \in 1..MaxFSize}

FilterLimits(kind) ==
    IF kind = "number" THEN {Number(n) : n \in 1..MaxFSize}
    ELSE {Tuple(<<a, b>>) :
             a \in {None} \cup {Some(n) : n \in 1..MaxFSize},
             b \in {None} \cup {Some(n) : n \in 1..MaxFSize}}

\* a call of filter_by_size: nothing of its body runs before the first next()
InitFilterVars ==
    /\ \E n \in 0..MaxFilter, kind \in {"number", "tuple"} :
          /\ f_indices = [i \in 1..n |-> i]
          /\ f_size_fn \in [1..n -> FilterSizes(kind)]
          /\ f_max_positions \in FilterLimits(kind)
    /\ f_raise_exception \in BOOLEAN
    /\ f_pos = 0
    /\ f_ignored = <<>>
    /\ f_out = <<>>
    /\ f_pc = "loop"

\* next() on the generator: the for loop gets the next passing index from
\* collect_filtered and yields it
FilterYield ==
    /\ f_pc = "loop"
    /\ LET q == NextPassing(f_pos)
       IN /\ q <= Len(f_indices)
          /\ ~(Len(IgnoredUpTo(q)) > 0 /\ f_raise_exception)
          /\ f_pos' = q
          /\ f_ignored' = IgnoredUpTo(q)
          /\ f_out' = Append(f_out, f_indices[q])
    /\ UNCHANGED <<f_indices, f_size_fn, f_max_positions, f_raise_exception,
                   f_pc>>

\* next() on the generator: the for loop gets the next passing index and
\* raises, since ignored is not empty
FilterRaise ==
    /\ f_pc = "loop"
    /\ LET q == NextPassing(f_pos)
       IN /\ q <= Len(f_indices)
          /\ Len(IgnoredUpTo(q)) > 0 /\ f_raise_exception
          /\ f_pos' = q
          /\ f_ignored' = IgnoredUpTo(q)
    /\ f_pc' = "raised"
    /\ UNCHANGED <<f_indices, f_size_fn, f_max_positions, f_raise_exception,
                   f_out>>

\* next() on the generator: collect_filtered is exhausted, the for loop
\* ends, the warning is printed if ignored is not empty and the generator
\* returns
FilterStop ==
    /\ f_pc = "loop"
    /\ LET q == NextPassing(f_pos)
       IN /\ q > Len(f_indices)
          /\ f_pos' = Len(f_indices)
          /\ f_ignored' = IgnoredUpTo(q)
    /\ f_pc' = "done"
    /\ UNCHANGED <<f_indices, f_size_fn, f_max_positions, f_raise_exception,
                   f_out>>

(* ===================== truncate_single, truncate_pair ================= *)
\* Python's sent[start:stop] for start >= 0: a negative stop counts from the
\* end, and stop = -0 is 0
PySlice(sent, start, stop) ==
    LET n == Len(sent)
        from == Min(start, n)
        to == IF stop < 0 THEN Max(n + stop, 0) ELSE Min(stop, n)
    IN SubSeq(sent, from + 1, to)

\* the values np.random.binomial(cnt, 0.5) can return
Binomial(cnt) == 0..cnt

\* _trunc_sent with the outcome of its draw as trunc_head
_trunc_sent(sent, cnt, trunc_head) ==
    LET trunc_tail == cnt - trunc_head
    IN PySlice(sent, trunc_head, 0 - trunc_tail)

\* what truncate_single can return
truncate_single(sent, max_positions) ==
    LET diff == Len(sent) + 1 - max_positions
    IN IF diff <= 0 THEN {sent}
       ELSE {_trunc_sent(sent, diff, h) : h \in Binomial(diff)}

\* truncate_pair after the longer sentence was cut down by to_trunc: the
\* remaining diff is split between the two
truncate_pair_split(sent1, sent2, diff) ==
    IF diff <= 0 THEN {<<sent1, sent2>>}
    ELSE UNION {{<<_trunc_sent(sent1, trunc1, h1),
                   _trunc_sent(sent2, diff - trunc1, h2)>> :
                    h1 \in Binomial(trunc1), h2 \in Binomial(diff - trunc1)} :
                trunc1 \in Binomial(diff)}

\* what truncate_pair can return
truncate_pair(sent1, sent2, max_positions) ==
    LET diff == Len(sent1) + Len(sent2) + 1 - max_positions
    IN IF diff <= 0 THEN {<<sent1, sent2>>}
       ELSE IF Len(sent1) > Len(sent2)
       THEN LET to_trunc == Min(Len(sent1) - Len(sent2), diff)
            IN UNION {truncate_pair_split(_trunc_sent(sent1, to_trunc, h),
                                          sent2, diff - to_trunc) :
                         h \in Binomial(to_trunc)}
       ELSE IF Len(sent1) < Len(sent2)
       THEN LET to_trunc == Min(Len(sent2) - Len(sent1), diff)
            IN UNION {truncate_pair_split(sent1,
                                          _trunc_sent(sent2, to_trunc, h),
                                          diff - to_trunc) :
                         h \in Binomial(to_trunc)}
       ELSE truncate_pair_split(sent1, sent2, diff)

\* the arguments of a call: sentences of tokens numbered by position
InitTruncVars ==
    /\ \E n1 \in 0..MaxSentLen, n2 \in 0..MaxSentLen :
          /\ t_sent1 = [i \in 1..n1 |-> i]
          /\ t_sent2 = [i \in 1..n2 |-> 100 + i]
    /\ t_max_positions \in 1..MaxPositions
    /\ t_out = <<>>
    /\ t_pc = "call"

\* truncate_single(sent1, max_positions) returns
TruncateSingle ==
    /\ t_pc = "call"
    /\ \E out \in truncate_single(t_sent1, t_max_positions) : t_out' = <<out>>
    /\ t_pc' = "truncate_single"
    /\ UNCHANGED <<t_sent1, t_sent2, t_max_positions>>

\* truncate_pair(sent1, sent2, max_positions) returns
TruncatePair ==
    /\ t_pc = "call"
    /\ t_out' \in truncate_pair(t_sent1, t_sent2, t_max_positions)
    /\ t_pc' = "truncate_pair"
    /\ UNCHANGED <<t_sent1, t_sent2, t_max_positions>>

(* ========================= distributed_train.py ======================= *)
\* The children are numbered 1..num_gpu in the order of the spawning loop;
\* a child's pid stands for the child.  A child is "none" before start(),
\* "running" inside run(), "put" once run() has put its rank and traceback
\* on error_queue, and "exited" when its process has ended.
Procs == 1..l_num_gpu

NothingRaised == [type |-> "none", trace |-> 0]

\* the parent process is alive: main has neither returned nor been left by an
\* exception
MainAlive == l_pc \in {"spawn", "add", "join"}

\* main up to the spawning loop: ErrorHandler.__init__ has started the
\* listener thread and installed signal_handler
InitLaunchVars ==
    /\ l_num_gpu \in 1..MaxProcs
    /\ l_pc = "spawn"
    /\ l_i = 1
    /\ l_procs = [i \in 1..l_num_gpu |-> "none"]
    /\ l_failed = {}
    /\ l_reaped = {}
    /\ l_children_pids = <<>>
    /\ l_error_queue = <<>>
    /\ l_listener = "get"
    /\ l_got = 0
    /\ l_sigusr1 = FALSE
    /\ l_sigint = {}
    /\ l_raised = NothingRaised

\* main: procs.append(mp.Process(...)); procs[i].start()
ProcStart ==
    /\ l_pc = "spawn"
    /\ l_procs' = [l_procs EXCEPT ![l_i] = "running"]
    /\ l_pc' = "add"
    /\ UNCHANGED <<l_num_gpu, l_i, l_failed, l_reaped, l_children_pids,
                   l_error_queue, l_listener, l_got, l_sigusr1, l_sigint,
                   l_raised>>

\* main: error_handler.add_child(procs[i].pid), and the loop goes on or ends
add_child ==
    /\ l_pc = "add"
    /\ l_children_pids' = Append(l_children_pids, l_i)
    /\ l_i' = IF l_i < l_num_gpu THEN l_i + 1 ELSE 1
    /\ l_pc' = IF l_i < l_num_gpu THEN "spawn" ELSE "join"
    /\ UNCHANGED <<l_num_gpu, l_procs, l_failed, l_reaped, l_error_queue,
                   l_listener, l_got, l_sigusr1, l_sigint, l_raised>>

\* main: p.join() returns for a child that has ended and reaps it; after the
\* last one main returns
ProcJoin ==
    /\ l_pc = "join"
    /\ l_procs[l_i] = "exited"
    /\ l_reaped' = l_reaped \cup {l_i}
    /\ l_i' = IF l_i < l_num_gpu THEN l_i + 1 ELSE l_i
    /\ l_pc' = IF l_i < l_num_gpu THEN "join" ELSE "returned"
    /\ UNCHANGED <<l_num_gpu, l_procs, l_failed, l_children_pids,
                   l_error_queue, l_listener, l_got, l_sigusr1, l_sigint,
                   l_raised>>

\* run: single_process_main returns
RunReturns(i) ==
    /\ l_procs[i] = "running"
    /\ l_procs' = [l_procs EXCEPT ![i] = "exited"]
    /\ UNCHANGED <<l_num_gpu, l_pc, l_i, l_failed, l_reaped, l_children_pids,
                   l_error_queue, l_listener, l_got, l_sigusr1, l_sigint,
                   l_raised>>

\* run: except Exception: error_queue.put((rank, traceback.format_exc()))
RunException(i) ==
    /\ l_procs[i] = "running"
    /\ l_procs' = [l_procs EXCEPT ![i] = "put"]
    /\ l_failed' = l_failed \cup {i}
    /\ l_error_queue' = Append(l_error_queue, i)
    /\ UNCHANGED <<l_num_gpu, l_pc, l_i, l_reaped, l_children_pids,
                   l_listener, l_got, l_sigusr1, l_sigint, l_raised>>

\* run returns after the put and the child's process ends
RunExits(i) ==
    /\ l_procs[i] = "put"
    /\ l_procs' = [l_procs EXCEPT ![i] = "exited"]
    /\ UNCHANGED <<l_num_gpu, l_pc, l_i, l_failed, l_reaped, l_children_pids,
                   l_error_queue, l_listener, l_got, l_sigusr1, l_sigint,
                   l_raised>>

\* run: except KeyboardInterrupt: pass, for a child the parent sent SIGINT
RunKeyboardInterrupt(i) ==
    /\ l_procs[i] = "running"
    /\ i \in l_sigint
    /\ l_procs' = [l_procs EXCEPT ![i] = "exited"]
    /\ UNCHANGED <<l_num_gpu, l_pc, l_i, l_failed, l_reaped, l_children_pids,
                   l_error_queue, l_listener, l_got, l_sigusr1, l_sigint,
                   l_raised>>

\* error_listener: (rank, original_trace) = self.error_queue.get()
error_listener_get ==
    /\ MainAlive
    /\ l_listener = "get"
    /\ l_error_queue # <<>>
    /\ l_got' = Head(l_error_queue)
    /\ l_error_queue' = Tail(l_error_queue)
    /\ l_listener' = "put"
    /\ UNCHANGED <<l_num_gpu, l_pc, l_i, l_procs, l_failed, l_reaped,
                   l_children_pids, l_sigusr1, l_sigint, l_raised>>

\* error_listener: self.error_queue.put((rank, original_trace))
error_listener_put ==
    /\ MainAlive
    /\ l_listener = "put"
    /\ l_error_queue' = Append(l_error_queue, l_got)
    /\ l_listener' = "kill"
    /\ UNCHANGED <<l_num_gpu, l_pc, l_i, l_procs, l_failed, l_reaped,
                   l_children_pids, l_got, l_sigusr1, l_sigint, l_raised>>

\* error_listener: os.kill(os.getpid(), signal.SIGUSR1), and the thread ends
error_listener_kill ==
    /\ MainAlive
    /\ l_listener = "kill"
    /\ l_sigusr1' = TRUE
    /\ l_listener' = "end"
    /\ UNCHANGED <<l_num_gpu, l_pc, l_i, l_procs, l_failed, l_reaped,
                   l_children_pids, l_error_queue, l_got, l_sigint, l_raised>>

\* the registered children before the first one whose pid is gone: os.kill
\* on the pid of a child that was joined raises ProcessLookupError and ends
\* the loop of signal_handler
RECURSIVE SignalledBeforeLookupError(_)
SignalledBeforeLookupError(pids) ==
    IF pids = <<>> \/ Head(pids) \in l_reaped THEN {}
    ELSE {Head(pids)} \cup SignalledBeforeLookupError(Tail(pids))

\* signal_handler, run in the main thread wherever main stands
signal_handler ==
    /\ MainAlive
    /\ l_sigusr1
    /\ l_sigusr1' = FALSE
    /\ l_sigint' = l_sigint \cup SignalledBeforeLookupError(l_children_pids)
    /\ IF \E k \in 1..Len(l_children_pids) : l_children_pids[k] \in l_reaped
       THEN /\ l_raised' = [type |-> "ProcessLookupError", trace |-> 0]
            /\ UNCHANGED l_error_queue
       ELSE /\ l_raised' = [type |-> "Exception",
                            trace |-> Head(l_error_queue)]
            /\ l_error_queue' = Tail(l_error_queue)
    /\ l_pc' = "raised"
    /\ UNCHANGED <<l_num_gpu, l_i, l_procs, l_failed, l_reaped,
                   l_children_pids, l_listener, l_got>>

(* ============================ specifications ========================== *)
IdleFilterVars ==
    /\ f_indices = <<>>
    /\ f_size_fn = <<>>
    /\ f_max_positions = 0
    /\ f_raise_exception = FALSE
    /\ f_pos = 0
    /\ f_ignored = <<>>
    /\ f_out = <<>>
    /\ f_pc = "idle"

IdleTruncVars ==
    /\ t_sent1 = <<>>
    /\ t_sent2 = <<>>
    /\ t_max_positions = 0
    /\ t_out = <<>>
    /\ t_pc = "idle"

IdleLaunchVars ==
    /\ l_num_gpu = 0
    /\ l_pc = "idle"
    /\ l_i = 0
    /\ l_procs = <<>>
    /\ l_failed = {}
    /\ l_reaped = {}
    /\ l_children_pids = <<>>
    /\ l_error_queue = <<>>
    /\ l_listener = "idle"
    /\ l_got = 0
    /\ l_sigusr1 = FALSE
    /\ l_sigint = {}
    /\ l_raised = NothingRaised

IdleOtherVars == IdleFilterVars /\ IdleTruncVars /\ IdleLaunchVars

IdleCountVars ==
    /\ c_iterable = [items |-> <<>>, single_pass |-> TRUE, pos |-> 0]
    /\ c_count = 0
    /\ c_itr = <<>>
    /\ c_loop = <<>>
    /\ c_out = <<>>
    /\ c_op = <<>>

IdleGroupVars ==
    /\ g_chunk_size = 1
    /\ g_len = 0
    /\ g_out = <<>>
    /\ g_stopped = FALSE

IdleIteratorVars ==
    /\ IdleBatchVars /\ IdleShardVars /\ IdleEpochVars
    /\ IdleCountVars /\ IdleGroupVars

InitBatch ==
    /\ InitBatchVars
    /\ IdleShardVars /\ IdleEpochVars /\ IdleCountVars /\ IdleGroupVars
    /\ IdleOtherVars

NextBatch ==
    \/ BatchAppend /\ UNCHANGED notBatchVars
    \/ BatchClose /\ UNCHANGED notBatchVars
    \/ BatchFinish /\ UNCHANGED notBatchVars

SpecBatch == InitBatch /\ [][NextBatch]_vars

InitShard ==
    /\ InitShardVars
    /\ IdleBatchVars /\ IdleEpochVars /\ IdleCountVars /\ IdleGroupVars
    /\ IdleOtherVars

NextShard ==
    \/ \E s \in DOMAIN shards : ShardNext(s) /\ UNCHANGED notShardVars
    \/ \E s \in DOMAIN shards : ShardStop(s) /\ UNCHANGED notShardVars

SpecShard == InitShard /\ [][NextShard]_vars

\* one EpochBatchIterator and every dict its caller may load
Init ==
    /\ InitEpochVars({"A"}, 1..MaxSeed)
    /\ IdleBatchVars /\ IdleShardVars /\ IdleCountVars /\ IdleGroupVars
    /\ IdleOtherVars

Next ==
    \/ \E self \in DOMAIN its, shuffle \in BOOLEAN :
          NextEpochItrLookahead(self, shuffle)
            /\ UNCHANGED notEpochVars
    \/ \E self \in DOMAIN its, shuffle \in BOOLEAN :
          NextEpochItrDerive(self, shuffle)
            /\ UNCHANGED notEpochVars
    \/ \E self \in DOMAIN its :
          Consume(self) /\ UNCHANGED notEpochVars
    \/ \E self \in DOMAIN its : \E sd \in StateDicts(its[self]) :
          LoadStateDict(self, sd) /\ UNCHANGED notEpochVars
    \/ \E self \in DOMAIN its :
          Restart(self) /\ UNCHANGED notEpochVars

Spec == Init /\ [][Next]_vars

\* the same iterator with its caller also taking state_dict() at any time,
\* between two other calls
NextDict ==
    \/ ret = None /\ Next
    \/ \E self \in DOMAIN its :
          StateDictCall(self) /\ UNCHANGED notEpochVars
    \/ DictTaken /\ UNCHANGED notEpochVars

SpecDict == Init /\ [][NextDict]_vars

\* two EpochBatchIterators over one plan and the default seed, in one
\* process or in two; each loads only what the other's state_dict()
\* returns, and only as the first call after it was built
InitPair ==
    /\ InitEpochVars({"A", "B"}, {DefaultSeed})
    /\ IdleBatchVars /\ IdleShardVars /\ IdleCountVars /\ IdleGroupVars
    /\ IdleOtherVars

NextPair ==
    \/ \E self \in DOMAIN its, shuffle \in BOOLEAN :
          NextEpochItrLookahead(self, shuffle)
            /\ UNCHANGED notEpochVars
    \/ \E self \in DOMAIN its, shuffle \in BOOLEAN :
          NextEpochItrDerive(self, shuffle)
            /\ UNCHANGED notEpochVars
    \/ \E self \in DOMAIN its :
          Consume(self) /\ UNCHANGED notEpochVars
    \/ \E self \in DOMAIN its : \E other \in DOMAIN its \ {self} :
          hist[self].op = "init"
            /\ LoadStateDict(self, SavedBy(its[other]))
            /\ UNCHANGED notEpochVars
    \/ \E self \in DOMAIN its :
          Restart(self) /\ UNCHANGED notEpochVars

SpecPair == InitPair /\ [][NextPair]_vars

\* one CountingIterator under every order of next(), skip() and iteration
\* by a caller
InitCount ==
    /\ InitCountVars
    /\ IdleBatchVars /\ IdleShardVars /\ IdleEpochVars /\ IdleGroupVars
    /\ IdleOtherVars

NextCount ==
    \/ CountNext /\ UNCHANGED notCountVars
    \/ CountStop /\ UNCHANGED notCountVars
    \/ \E num_to_skip \in 0..MaxSkip :
          CountSkip(num_to_skip) /\ UNCHANGED notCountVars
    \/ CountIter /\ UNCHANGED notCountVars
    \/ CountLoopNext /\ UNCHANGED notCountVars
    \/ CountLoopStop /\ UNCHANGED notCountVars

SpecCount == InitCount /\ [][NextCount]_vars

\* a GroupedIterator over a cursor, iterated to its end
InitGroup ==
    /\ InitGroupVars
    /\ IdleBatchVars /\ IdleShardVars /\ IdleEpochVars
    /\ IdleOtherVars

NextGroup ==
    \/ GroupNext /\ UNCHANGED notGroupVars
    \/ GroupStop /\ UNCHANGED notGroupVars

SpecGroup == InitGroup /\ [][NextGroup]_vars

InitFilter == InitFilterVars /\ IdleIteratorVars /\ IdleTruncVars /\ IdleLaunchVars

NextFilter ==
    \/ FilterYield /\ UNCHANGED notFilterVars
    \/ FilterRaise /\ UNCHANGED notFilterVars
    \/ FilterStop /\ UNCHANGED notFilterVars

SpecFilter == InitFilter /\ [][NextFilter]_vars

InitLaunch == InitLaunchVars /\ IdleIteratorVars /\ IdleFilterVars /\ IdleTruncVars

NextLaunch ==
    \/ ProcStart /\ UNCHANGED notLaunchVars
    \/ add_child /\ UNCHANGED notLaunchVars
    \/ ProcJoin /\ UNCHANGED notLaunchVars
    \/ \E i \in Procs : RunReturns(i) /\ UNCHANGED notLaunchVars
    \/ \E i \in Procs : RunException(i) /\ UNCHANGED notLaunchVars
    \/ \E i \in Procs : RunExits(i) /\ UNCHANGED notLaunchVars
    \/ \E i \in Procs : RunKeyboardInterrupt(i) /\ UNCHANGED notLaunchVars
    \/ error_listener_get /\ UNCHANGED notLaunchVars
    \/ error_listener_put /\ UNCHANGED notLaunchVars
    \/ error_listener_kill /\ UNCHANGED notLaunchVars
    \/ signal_handler /\ UNCHANGED notLaunchVars

SpecLaunch == InitLaunch /\ [][NextLaunch]_vars

InitTrunc == InitTruncVars /\ IdleIteratorVars /\ IdleFilterVars /\ IdleLaunchVars

NextTrunc ==
    \/ TruncateSingle /\ UNCHANGED notTruncVars
    \/ TruncatePair /\ UNCHANGED notTruncVars

SpecTrunc == InitTrunc /\ [][NextTrunc]_vars

(* -------------------- properties of batch_by_size --------------------- *)
\* the largest size of an example of batch b
MaxSizeIn(b) == MaxOf([i \in 1..Len(b) |-> num_tokens_fn[b[i]]])

\* C1: the emitted batches together with the candidate hold each index taken
\* from the input exactly as often as it occurs there; once the generator is
\* done the candidate has been emitted, so the emitted batches alone hold
\* every input index exactly as often as the input does.
C1_Conservation ==
    /\ \A x \in Idx :
         Count(Flatten(emitted) \o (IF pc_b = "done" THEN <<>> ELSE batch), x)
           = Count(Take(indices, pos), x)
    /\ pc_b = "done" => pos = Len(indices)

\* a finished run over an input with a repeated index in which a batch was
\* closed with a remainder carried over to the next candidate
C1_Witness ==
    /\ pc_b = "done"
    /\ Len(indices) >= 4
    /\ bsz_mult = 2
    /\ max_tokens = Inf
    /\ max_sentences = 3
    /\ Len(emitted) = 2
    /\ \E x \in Idx : Count(indices, x) >= 2

\* C2: every emitted batch with more than one example stays within
\* max_tokens (length times largest size), so an example larger than
\* max_tokens is only ever emitted alone.
C2_TokenBudget ==
    \A i \in 1..Len(emitted) :
        Len(emitted[i]) > 1 =>
            Len(emitted[i]) * MaxSizeIn(emitted[i]) <= max_tokens

\* C3: every emitted batch, and the candidate, has at most max_sentences
\* examples.
C3_SentenceBudget ==
    /\ \A i \in 1..Len(emitted) : Len(emitted[i]) <= max_sentences
    /\ Len(batch) <= max_sentences

\* a run in which only the sentence limit closes batches, the first close
\* carried one example over and the batch after it was emitted
C3_Witness ==
    /\ pc_b = "done"
    /\ max_tokens = Inf
    /\ max_sentences = 3
    /\ bsz_mult = 2
    /\ Len(emitted) >= 2
    /\ Len(emitted[1]) = 2
    /\ Len(emitted[2]) = 2

CeilDiv(a, b) == CHOOSE k \in 0..a : k * b >= a /\ (k = 0 \/ (k - 1) * b < a)

\* C7: every shard reports the length ceil(L / num_shards), has never
\* yielded more items than that, can yield another item exactly while it
\* has yielded fewer, and has yielded exactly that many when it stops.
C7_EqualShardLength ==
    \A s \in DOMAIN shards :
        LET c == CeilDiv(Len(sh_iterable), sh_num_shards)
        IN /\ shards[s].sharded_len = c
           /\ Len(yielded[s]) <= c
           /\ ShardedHasNext(shards[s]) <=> Len(yielded[s]) < c
           /\ stopped[s] => Len(yielded[s]) = c

\* every shard of a sequence that does not divide evenly has stopped
C7_Witness ==
    /\ sh_num_shards = 3
    /\ Len(sh_iterable) % sh_num_shards = 1
    /\ Len(sh_iterable) > 3
    /\ \A s \in DOMAIN stopped : stopped[s]

\* the 0-based position of the sequence that the j-th item of shard s covers
PositionOf(s, j) == s + (j - 1) * sh_num_shards

\* C8: the j-th item of shard s is the element at position
\* s + (j-1)*num_shards, or the fill value when that position is past the
\* end; once all shards have stopped every position of the sequence is
\* covered by exactly one item of one shard.
C8_ShardCompleteness ==
    /\ \A s \in DOMAIN shards : \A j \in 1..Len(yielded[s]) :
         yielded[s][j] = IF PositionOf(s, j) < Len(sh_iterable)
                         THEN sh_iterable[PositionOf(s, j) + 1]
                         ELSE FillValue
    /\ (\A s \in DOMAIN stopped : stopped[s]) =>
         \A p \in 1..Len(sh_iterable) :
            Cardinality({sj \in {<<s, j>> : s \in DOMAIN shards,
                                            j \in 1..(Len(sh_iterable) + 1)} :
                           /\ sj[2] <= Len(yielded[sj[1]])
                           /\ yielded[sj[1]][sj[2]] = sh_iterable[p]}) = 1

\* all shards of an unevenly divided sequence have stopped, one of them
\* after yielding a fill value
C8_Witness ==
    /\ sh_num_shards = 3
    /\ Len(sh_iterable) >= 4
    /\ \A s \in DOMAIN stopped : stopped[s]
    /\ \E s \in DOMAIN yielded :
          Len(yielded[s]) >= 2 /\ yielded[s][Len(yielded[s])] = FillValue

\* C24: a shard yields the fill value only as its last item, the one that
\* brings it to the common length, and only when L mod num_shards > 0 and
\* shard_id >= L mod num_shards; every such shard has yielded it, once, when
\* it stops; for L = 7 and num_shards = 3 shard 0 yields positions 0, 3, 6
\* and shards 1 and 2 two elements and then the fill value
C24_FillPlacement ==
    LET L == Len(sh_iterable)
        r == L % sh_num_shards
    IN /\ \A s \in DOMAIN shards :
            /\ \A j \in 1..Len(yielded[s]) :
                  yielded[s][j] = FillValue =>
                     /\ r > 0 /\ s >= r
                     /\ j = (L \div sh_num_shards) + 1
                     /\ ~ShardedHasNext(shards[s])
            /\ (stopped[s] /\ r > 0 /\ s >= r) =>
                  /\ Len(yielded[s]) >= 1
                  /\ yielded[s][Len(yielded[s])] = FillValue
                  /\ Cardinality({j \in 1..Len(yielded[s]) :
                                     yielded[s][j] = FillValue}) = 1
       /\ (L = 7 /\ sh_num_shards = 3
              /\ \A s \in DOMAIN stopped : stopped[s]) =>
            /\ yielded[0] = <<sh_iterable[1], sh_iterable[4], sh_iterable[7]>>
            /\ yielded[1] = <<sh_iterable[2], sh_iterable[5], FillValue>>
            /\ yielded[2] = <<sh_iterable[3], sh_iterable[6], FillValue>>

\* the three shards of a sequence of 7 have all stopped
C24_Witness ==
    /\ Len(sh_iterable) = 7
    /\ sh_num_shards = 3
    /\ \A s \in DOMAIN stopped : stopped[s]
    /\ yielded[2][3] = FillValue

(* ------------------ properties of EpochBatchIterator ------------------ *)
\* the cursors an EpochBatchIterator holds
Cursors(obj) ==
    {Val(o) : o \in {obj.cur_epoch_itr, obj.next_epoch_itr} \ {None}}

\* C5: when a fresh iterator with the same shard descriptor has loaded the
\* state_dict() of a run that is in the epoch it began with
\* next_epoch_itr() and has consumed k < total batches of it, and has then
\* called next_epoch_itr(), it has exactly the run's remaining total - k
\* batches to yield, in the run's order.
C5_Resume ==
    \A j \in DOMAIN its : \A i \in hist[j].src :
        LET run == Val(its[i].cur_epoch_itr)
        IN (/\ hist[j].op = "next"
            /\ hist[j].clean
            /\ hist[j].arg
            /\ run.shuffle
            /\ run.epoch = its[i].epoch
            /\ its[i].shard_id = its[j].shard_id
            /\ run.count < CountingLen(run))
           => /\ its[j].cur_epoch_itr # None
              /\ Remaining(Val(its[j].cur_epoch_itr)) = Remaining(run)
              /\ Len(Remaining(Val(its[j].cur_epoch_itr)))
                   = CountingLen(run) - run.count

\* C6: cursors that two iterators with the same plan, seed and shard
\* descriptor derived for the same epoch number and shuffle flag hold the
\* same item sequence, whatever each iterator did before.
C6_Determinism ==
    \A i, j \in DOMAIN its :
        \A c \in Cursors(its[i]), d \in Cursors(its[j]) :
            (/\ its[i].shard_id = its[j].shard_id
             /\ c.epoch = d.epoch
             /\ c.shuffle = d.shuffle)
            => AllItems(c) = AllItems(d)

\* the two iterators hold a shuffled cursor for epoch 2 of a three-batch
\* plan, one derived by next_epoch_itr after an unshuffled epoch 1, the
\* other by load_state_dict after a restart
C6_Witness ==
    /\ its["A"].shard_id = its["B"].shard_id
    /\ Len(its["A"].frozen_batches) = 3
    /\ its["A"].cur_epoch_itr # None /\ its["B"].cur_epoch_itr # None
    /\ Val(its["A"].cur_epoch_itr).epoch = 2
    /\ Val(its["B"].cur_epoch_itr).epoch = 2
    /\ Val(its["A"].cur_epoch_itr).shuffle
    /\ Val(its["B"].cur_epoch_itr).shuffle
    /\ hist["A"].op = "iter"
    /\ hist["B"].op = "next" /\ hist["B"].loaded /\ hist["B"].clean

\* C9: when the workers 0..num_shards-1 each hold the cursor of the same
\* epoch, derived with the same shuffle flag, every batch of the frozen
\* plan is an item of exactly one worker's epoch, at one place, and every
\* other item is the fill value.
C9_DisjointShards ==
    \A w \in [0..(its["A"].num_shards - 1) -> DOMAIN its] :
        (/\ \A s \in DOMAIN w :
               /\ its[w[s]].shard_id = s
               /\ its[w[s]].cur_epoch_itr # None
               /\ Val(its[w[s]].cur_epoch_itr).epoch
                    = Val(its[w[0]].cur_epoch_itr).epoch
               /\ Val(its[w[s]].cur_epoch_itr).shuffle
                    = Val(its[w[0]].cur_epoch_itr).shuffle)
        => LET plan == PlanOf(Len(its["A"].frozen_batches))
               items(s) == AllItems(Val(its[w[s]].cur_epoch_itr))
               places == {sk \in (DOMAIN w) \X (1..(Len(plan) + 1)) :
                            sk[2] <= Len(items(sk[1]))}
           IN /\ \A p \in 1..Len(plan) :
                   Cardinality({sk \in places :
                                  items(sk[1])[sk[2]] = plan[p]}) = 1
              /\ \A sk \in places :
                   \/ items(sk[1])[sk[2]] = FillValue
                   \/ \E p \in 1..Len(plan) : items(sk[1])[sk[2]] = plan[p]

\* two workers of a three-batch plan have both finished the shuffled
\* epoch 1, one of them with a fill value
C9_Witness ==
    /\ its["A"].num_shards = 2
    /\ its["A"].shard_id = 0 /\ its["B"].shard_id = 1
    /\ Len(its["A"].frozen_batches) = 3
    /\ its["A"].cur_epoch_itr # None /\ its["B"].cur_epoch_itr # None
    /\ Val(its["A"].cur_epoch_itr).epoch = 1
    /\ Val(its["B"].cur_epoch_itr).epoch = 1
    /\ Val(its["A"].cur_epoch_itr).shuffle
    /\ Val(its["B"].cur_epoch_itr).shuffle
    /\ ~has_next(Val(its["A"].cur_epoch_itr))
    /\ ~has_next(Val(its["B"].cur_epoch_itr))
    /\ Val(its["B"].cur_epoch_itr).seen[2] = FillValue

\* C10: after load_state_dict with iterations_in_epoch at or past the
\* length of the worker's epoch no lookahead is pending, and the
\* next_epoch_itr that follows installs an iterator with count 0 that has
\* the whole epoch to yield.
C10_OverflowLoad ==
    \A j \in DOMAIN its :
        (hist[j].loaded /\ hist[j].pos >= EpochLen(its[j]))
        => /\ hist[j].op = "load" => its[j].next_epoch_itr = None
           /\ hist[j].op = "next" =>
                /\ Val(its[j].cur_epoch_itr).count = 0
                /\ Len(Remaining(Val(its[j].cur_epoch_itr)))
                     = EpochLen(its[j])

\* a step of instance j that is a call of next_epoch_itr: every such call
\* changes the instance (its epoch, or its lookahead)
IsNextEpochItr(j) == its'[j] # its[j] /\ hist'[j].op = "next"

\* C11: the next_epoch_itr call that follows a load_state_dict with epoch e
\* and iterations_in_epoch equal to the length of the worker's epoch leaves
\* the epoch counter at e.
C11_OverflowKeepsEpoch ==
    [][\A j \in DOMAIN its :
          (/\ hist[j].op = "load"
           /\ hist[j].pos = EpochLen(its[j])
           /\ IsNextEpochItr(j))
          => its'[j].epoch = its[j].epoch]_vars

\* C12: the epoch counter of a newly built iterator is 0; a next_epoch_itr
\* call with no lookahead pending adds exactly 1 to it and makes a newly
\* derived iterator with count 0 and the whole epoch to yield the active
\* cursor; a call with a lookahead pending leaves the counter as it is,
\* makes the lookahead the active cursor and leaves no lookahead pending.
C12_EpochCounter ==
    /\ [](\A j \in DOMAIN its : hist[j].op = "init" => its[j].epoch = 0)
    /\ [][\A j \in DOMAIN its :
            IsNextEpochItr(j) =>
               /\ its'[j].epoch >= its[j].epoch
               /\ its'[j].next_epoch_itr = None
               /\ its'[j].cur_epoch_itr # None
               /\ IF its[j].next_epoch_itr = None
                  THEN /\ its'[j].epoch = its[j].epoch + 1
                       /\ Val(its'[j].cur_epoch_itr).count = 0
                       /\ Val(its'[j].cur_epoch_itr).seen = <<>>
                       /\ Val(its'[j].cur_epoch_itr).epoch = its'[j].epoch
                       /\ Len(Remaining(Val(its'[j].cur_epoch_itr)))
                            = EpochLen(its[j])
                  ELSE /\ its'[j].epoch = its[j].epoch
                       /\ its'[j].cur_epoch_itr = its[j].next_epoch_itr]_vars

\* a lookahead of a load_state_dict was made the active cursor of epoch 2
\* by next_epoch_itr, after epoch 1 had been begun without one
C12_Witness ==
    /\ hist["A"].op = "next"
    /\ hist["A"].loaded /\ ~hist["A"].clean
    /\ hist["A"].pos >= 1
    /\ its["A"].epoch = 2
    /\ its["A"].next_epoch_itr = None
    /\ its["A"].cur_epoch_itr # None
    /\ Val(its["A"].cur_epoch_itr).count = hist["A"].pos

\* the number of items the cursor state_dict() reports on has given out:
\* those of the active cursor, else those of the lookahead, else none
ConsumedCount(obj) ==
    IF obj.cur_epoch_itr # None THEN Len(Val(obj.cur_epoch_itr).seen)
    ELSE IF obj.next_epoch_itr # None THEN Len(Val(obj.next_epoch_itr).seen)
    ELSE 0

\* C13: a call of state_dict() returns the epoch counter and the number of
\* items consumed from the active cursor if there is one, else from the
\* pending lookahead if there is one, else 0, and changes nothing of the
\* iterator.
C13_StateDict ==
    [][ret' # None =>
         LET j == Val(ret').of
         IN /\ its' = its
            /\ hist' = hist
            /\ Val(ret').dict =
                 [epoch |-> its[j].epoch,
                  iterations_in_epoch |-> ConsumedCount(its[j])]]_vars

\* state_dict() was called while an active cursor and a lookahead with
\* different counts were both present
C13_Witness ==
    /\ ret # None
    /\ its["A"].cur_epoch_itr # None
    /\ its["A"].next_epoch_itr # None
    /\ Val(its["A"].cur_epoch_itr).count = 2
    /\ Val(its["A"].next_epoch_itr).count = 1
    /\ Val(ret).dict.iterations_in_epoch = 2

\* seq b holds the elements of seq a, each as often as a does
IsPermutation(b, a) ==
    /\ Len(b) = Len(a)
    /\ \A k \in 1..Len(a) : Count(b, a[k]) = Count(a, a[k])

\* C14: no call changes frozen_batches; the order derived for any epoch is
\* a permutation of frozen_batches with every batch as it is in the plan,
\* and is frozen_batches itself when shuffle is false; a cursor of an
\* unsharded iterator holds exactly that order.
C14_FrozenPlan ==
    /\ [][\A j \in DOMAIN its :
            its'[j].frozen_batches = its[j].frozen_batches]_vars
    /\ [](\A j \in DOMAIN its :
            /\ its[j].frozen_batches = PlanOf(Len(its[j].frozen_batches))
            /\ \A e \in 0..MaxEpoch :
                 /\ IsPermutation(BatchesForEpoch(its[j], e, TRUE),
                                  its[j].frozen_batches)
                 /\ BatchesForEpoch(its[j], e, FALSE) = its[j].frozen_batches
            /\ \A c \in Cursors(its[j]) :
                 its[j].num_shards = 1 =>
                    /\ IsPermutation(AllItems(c), its[j].frozen_batches)
                    /\ ~c.shuffle => AllItems(c) = its[j].frozen_batches)

\* an unsharded iterator over three batches has yielded all of a shuffled
\* epoch, in another order than the plan's
C14_Witness ==
    /\ its["A"].num_shards = 1
    /\ Len(its["A"].frozen_batches) = 3
    /\ its["A"].cur_epoch_itr # None
    /\ Val(its["A"].cur_epoch_itr).shuffle
    /\ Val(its["A"].cur_epoch_itr).count = 3
    /\ Val(its["A"].cur_epoch_itr).seen # its["A"].frozen_batches

\* C15: building a ShardedIterator raised the error exactly for the
\* shard_ids below 0 and those at or above num_shards; every shard_id from
\* 0 to num_shards - 1 has its iterator, and a shard_id whose construction
\* raised has no iterator and has yielded nothing.
C15_ShardIdCheck ==
    /\ sh_failed = {s \in TriedShardIds : s < 0 \/ s >= sh_num_shards}
    /\ DOMAIN shards = ShardIds
    /\ DOMAIN yielded = ShardIds
    /\ \A s \in sh_failed :
         ShardedIteratorInit(sh_iterable, sh_num_shards, s, FillValue)
           = ValueError

\* with two shards the shard_ids -2, -1, 2 and 3 were refused and shard 1
\* has yielded an item
C15_Witness ==
    /\ sh_num_shards = 2
    /\ sh_failed = {0 - 2, 0 - 1, 2, 3}
    /\ Len(yielded[1]) >= 1

\* C16: while an iterator has an active cursor, end_of_epoch() is true
\* exactly when the cursor has given out as many items as the worker's
\* epoch has, which is exactly when it has no item left; right after a
\* next_epoch_itr that installed the lookahead of a load_state_dict with
\* 0 < iterations_in_epoch < length it is false.
C16_EndOfEpoch ==
    \A j \in DOMAIN its :
        its[j].cur_epoch_itr # None =>
           LET cur == Val(its[j].cur_epoch_itr)
           IN /\ end_of_epoch(its[j]) <=> Len(cur.seen) = EpochLen(its[j])
              /\ end_of_epoch(its[j]) <=> ~CountingCanStep(cur)
              /\ end_of_epoch(its[j]) <=> Remaining(cur) = <<>>
              /\ (/\ hist[j].op = "next"
                  /\ hist[j].loaded
                  /\ hist[j].pos > 0
                  /\ hist[j].pos < EpochLen(its[j]))
                 => ~end_of_epoch(its[j])

\* next_epoch_itr has just installed the lookahead of a load_state_dict
\* that skipped one of three batches
C16_Witness ==
    /\ hist["A"].op = "next"
    /\ hist["A"].loaded
    /\ hist["A"].pos = 1
    /\ EpochLen(its["A"]) = 3
    /\ its["A"].cur_epoch_itr # None
    /\ Val(its["A"].cur_epoch_itr).count = 1
    /\ ~end_of_epoch(its["A"])

(* ------------------- properties of CountingIterator ------------------- *)
\* the element next() on the CountingIterator returns, if it returns one
NextElement ==
    IF GenCanYield(c_iterable, c_itr)
    THEN Some(c_iterable.items[GenPos(c_iterable, c_itr) + 1])
    ELSE None

\* C17: count is the number of elements drawn from the iterator so far and
\* has_next() is true exactly when count is below the length; skip(n) with
\* n at most the length minus count adds exactly n to count, and the
\* element next() then returns is the one count + n places into the
\* iterable; skip(n) with a larger n leaves count at the length.
C17_CountAndSkip ==
    /\ [](/\ c_count = Len(c_out)
          /\ CountHasNext <=> c_count < Len(c_iterable.items))
    /\ [][c_op'.op = "skip" =>
            LET n == c_op'.n
                total == Len(c_iterable.items)
            IN IF n <= total - c_count
               THEN /\ c_count' = c_count + n
                    /\ NextElement' =
                         IF c_count + n < total
                         THEN Some(c_iterable.items[c_count + n + 1])
                         ELSE None
               ELSE c_count' = total]_vars

\* C18: count never exceeds the length of the wrapped iterable, and once
\* has_next() is false or a generator of the iterator has returned, no step
\* draws another element from it.
C18_SinglePass ==
    /\ [](c_count <= Len(c_iterable.items))
    /\ [][(\/ ~CountHasNext
           \/ c_itr.state = "done"
           \/ (c_loop # None /\ Val(c_loop).state = "done"))
          => c_out' = c_out]_vars

(* ------------------- properties of GroupedIterator -------------------- *)
\* the items the source had to give when the GroupedIterator was built:
\* all of a sequence, and of a single-pass iterable those not drawn before
SourceItems ==
    IF c_iterable.single_pass
    THEN Drop(c_iterable.items, Len(c_out) - Len(Flatten(g_out)))
    ELSE c_iterable.items

\* C19: the groups yielded so far are, joined, the first of the source's
\* items in order; no group is empty or longer than chunk_size and every
\* group before the last one yielded has exactly chunk_size items; the
\* reported length is ceil(total / chunk_size), never fewer than the groups
\* yielded, and once exhaustion is signalled the groups are all of the
\* source's items and exactly as many as the reported length.
C19_Groups ==
    /\ Flatten(g_out) = Take(SourceItems, Len(Flatten(g_out)))
    /\ \A i \in 1..Len(g_out) :
         /\ Len(g_out[i]) >= 1
         /\ Len(g_out[i]) <= g_chunk_size
         /\ i < Len(g_out) => Len(g_out[i]) = g_chunk_size
    /\ g_len = CeilDiv(Len(c_iterable.items), g_chunk_size)
    /\ Len(g_out) <= g_len
    /\ g_stopped =>
         /\ Flatten(g_out) = SourceItems
         /\ Len(g_out) = g_len

(* --------------------------- the empty plan --------------------------- *)
\* C20: an EpochBatchIterator whose batch plan is empty never has an epoch
\* begun on it: next_epoch_itr does not return a cursor for it.
C20_EmptyPlanRejected ==
    \A j \in DOMAIN its :
        Len(its[j].frozen_batches) = 0 =>
           /\ its[j].cur_epoch_itr = None
           /\ hist[j].op # "next"

\* C27: right after load_state_dict(s) with s.iterations_in_epoch below the
\* length of this worker's epoch, state_dict() returns s: the epoch the load
\* stored and the loaded iterations_in_epoch
C27_RoundTrip ==
    \A j \in DOMAIN its :
       (hist[j].op = "load" /\ hist[j].pos < EpochLen(its[j])) =>
          state_dict(its[j]) = [epoch |-> its[j].epoch,
                                iterations_in_epoch |-> hist[j].pos]

\* C28: when a fresh iterator with the same shard descriptor has loaded the
\* state_dict() of a run that is in an epoch it began with
\* next_epoch_itr(shuffle=False) and of which it has consumed k >= 1 batches,
\* not all, and has then called next_epoch_itr(shuffle=False), it has the
\* run's remaining batches to yield, in the order of the frozen plan
C28_ResumeUnshuffled ==
    \A j \in DOMAIN its : \A i \in hist[j].src :
        LET run == Val(its[i].cur_epoch_itr)
        IN (/\ hist[j].op = "next"
            /\ hist[j].clean
            /\ ~hist[j].arg
            /\ ~run.shuffle
            /\ run.epoch = its[i].epoch
            /\ its[i].shard_id = its[j].shard_id
            /\ run.count >= 1
            /\ run.count < CountingLen(run))
           => /\ its[j].cur_epoch_itr # None
              /\ Remaining(Val(its[j].cur_epoch_itr)) = Remaining(run)
              /\ Remaining(run)
                   = ShardedItems(skip(GetIteratorForEpoch(its[j], run.epoch,
                                                           FALSE),
                                       run.count).iterable)

\* C29: in every state of an EpochBatchIterator, also before the first
\* next_epoch_itr and with only a lookahead pending, a call of end_of_epoch()
\* returns a boolean and raises nothing
C29_EndOfEpochTotal ==
    \A j \in DOMAIN its :
       /\ end_of_epoch_call(its[j]).raised = "none"
       /\ end_of_epoch_call(its[j]).value \in BOOLEAN

\* the number of indices in the first k emitted batches
EmittedUpTo(k) == Len(Flatten(SubSeq(emitted, 1, k)))

\* C26: the emitted batches joined in emission order, followed by the
\* candidate while the loop runs, are the input indices taken so far in input
\* order, all of the input once the generator is done; each emitted batch is
\* the run of the input that follows the batches before it
C26_OrderPreserved ==
    /\ pc_b = "loop" => Flatten(emitted) \o batch = SubSeq(indices, 1, pos)
    /\ pc_b = "done" => Flatten(emitted) = indices
    /\ \A k \in 1..Len(emitted) :
          emitted[k] = SubSeq(indices, EmittedUpTo(k - 1) + 1, EmittedUpTo(k))

\* an input of 4 indices was emitted in at least 2 batches, one of them of
\* more than one index
C26_Witness ==
    /\ pc_b = "done"
    /\ Len(indices) = 4
    /\ indices[1] # indices[2]
    /\ Len(emitted) >= 2
    /\ \E k \in 1..Len(emitted) : Len(emitted[k]) >= 2

\* C25: a pending lookahead was derived for the current epoch counter, and
\* right after a load_state_dict the lookahead is the one of that load:
\* none if its iterations_in_epoch is 0 or at least the epoch length, else
\* one that has consumed exactly that many batches
C25_LookaheadOfLastLoad ==
    \A j \in DOMAIN its :
       LET obj == its[j]
       IN /\ obj.next_epoch_itr # None =>
                Val(obj.next_epoch_itr).epoch = obj.epoch
          /\ hist[j].op = "load" =>
                IF hist[j].pos = 0 \/ hist[j].pos >= EpochLen(obj)
                THEN obj.next_epoch_itr = None
                ELSE /\ obj.next_epoch_itr # None
                     /\ Val(obj.next_epoch_itr).count = hist[j].pos

\* C23: a close of a candidate of length n >= 1 under multiple m emits its
\* first m*floor(n/m) elements if n >= m and all of it if n < m, never an
\* empty batch; the fewer than m elements left are carried in order ahead of
\* the pending index; at the end of the input a non-empty candidate is
\* emitted as the last batch
C23_CloseAndCarry ==
    [][/\ (pc_b = "loop" /\ pc_b' = "loop" /\ emitted' # emitted) =>
            LET n == Len(batch)
                m == bsz_mult
                out == emitted'[Len(emitted')]
            IN /\ n >= 1
               /\ emitted' = Append(emitted, out)
               /\ out = SubSeq(batch, 1, IF n >= m THEN m * (n \div m) ELSE n)
               /\ out # <<>>
               /\ n - Len(out) < m
               /\ batch' = SubSeq(batch, Len(out) + 1, n)
                              \o <<indices[pos + 1]>>
       /\ (pc_b = "loop" /\ pc_b' = "done") =>
            emitted' = IF batch # <<>> THEN emitted \o <<batch>> ELSE emitted
      ]_vars

\* a candidate of 3 was closed under multiple 2: its first 2 indices were
\* emitted and the third is carried ahead of the pending fourth
C23_Witness ==
    /\ pc_b = "loop"
    /\ bsz_mult = 2
    /\ Len(emitted) = 1
    /\ Len(emitted[1]) = 2
    /\ pos = 4
    /\ batch = <<indices[3], indices[4]>>

(* -------------------- properties of filter_by_size -------------------- *)
\* the indices of s that pass check_size, in order
RECURSIVE Passing(_)
Passing(s) ==
    IF s = <<>> THEN <<>>
    ELSE (IF check_size(s[1]) THEN <<s[1]>> ELSE <<>>) \o Passing(Tail(s))

\* C21: with raise_exception the generator does not finish without an
\* exception when some index of the input is over the limit, wherever it
\* stands; without it, it never raises and it has yielded exactly the indices
\* within the limit, in input order, when it finishes
C21_FilterRaises ==
    /\ ~f_raise_exception => f_pc # "raised"
    /\ f_pc = "done" =>
          IF f_raise_exception THEN Passing(f_indices) = f_indices
          ELSE f_out = Passing(f_indices)

(* ----------------- properties of the truncate functions --------------- *)
\* the number of elements a call has to remove
TruncDiff(total) == total + 1 - t_max_positions

\* C30: truncate_single returns a sequence of length max_positions - 1 for a
\* longer input and the input itself otherwise; truncate_pair returns two
\* sequences whose lengths sum to max_positions - 1 when the inputs' lengths
\* sum to more; a sequence longer than the number of elements to remove is
\* never returned empty
C30_TruncatedLength ==
    /\ t_pc = "truncate_single" =>
          LET diff == TruncDiff(Len(t_sent1))
          IN /\ IF diff > 0 THEN Len(t_out[1]) = t_max_positions - 1
                ELSE t_out[1] = t_sent1
             /\ (t_sent1 # <<>> /\ diff < Len(t_sent1)) => t_out[1] # <<>>
    /\ t_pc = "truncate_pair" =>
          LET diff == TruncDiff(Len(t_sent1) + Len(t_sent2))
          IN /\ diff > 0 =>
                  Len(t_out[1]) + Len(t_out[2]) = t_max_positions - 1
             /\ (t_sent1 # <<>> /\ diff < Len(t_sent1)) => t_out[1] # <<>>
             /\ (t_sent2 # <<>> /\ diff < Len(t_sent2)) => t_out[2] # <<>>

(* ----------------------- properties of the launcher ------------------- *)
\* C22: once a child has put its rank and traceback on the error queue, the
\* parent does not return from main without an exception, and the exception
\* that ends main carries the traceback of a child that failed, every
\* registered child having been sent SIGINT
C22_FailurePropagates ==
    /\ l_pc = "returned" => l_failed = {}
    /\ l_pc = "raised" =>
          /\ l_raised.type = "Exception"
          /\ l_raised.trace \in l_failed
          /\ \A k \in 1..Len(l_children_pids) :
                l_children_pids[k] \in l_sigint

====
